---- MODULE Spec2Model ----
(***************************************************************************)
(* Afropair French -> Moore translation pipeline (afropair.js):            *)
(* Splitter, DictionaryLookup, CorpusRetriever, Referee, Scorer, Logger    *)
(* and the AfropairPipeline orchestrator.                                  *)
(*                                                                         *)
(* Text is a sequence of characters (one-character strings).  Numbers are  *)
(* exact rationals [n |-> numerator, d |-> denominator > 0] in lowest      *)
(* terms, so equality of numbers is equality of records; the three other   *)
(* values of a JavaScript number have denominator 0: Infinity is 1/0,      *)
(* -Infinity is -1/0 and NaN is 0/0.  Rounding, overflow and underflow of  *)
(* the binary representation are not modelled.                             *)
(***************************************************************************)
EXTENDS Integers, Sequences, FiniteSets, TLC

\* ------------------------------------------------------------------------
\* Numbers
\* ------------------------------------------------------------------------
Abs(i) == IF i < 0 THEN 0 - i ELSE i

RECURSIVE GCD(_, _)
GCD(a, b) == IF b = 0 THEN a ELSE GCD(b, a % b)

Sign(i) == IF i < 0 THEN -1 ELSE IF i > 0 THEN 1 ELSE 0

Rat(num, den) ==
    IF den = 0 THEN [n |-> Sign(num), d |-> 0]
    ELSE LET g == GCD(Abs(num), den)
         IN  [n |-> num \div g, d |-> den \div g]

Zero == Rat(0, 1)
One == Rat(1, 1)
Infinity == [n |-> 1, d |-> 0]
NegInfinity == [n |-> -1, d |-> 0]
\* NaN: the one number that no comparison holds of
NaN == [n |-> 0, d |-> 0]

\* x + y: Infinity + -Infinity is NaN
RatAdd(x, y) ==
    IF x.d = 0 /\ y.d = 0 THEN (IF x = y THEN x ELSE NaN)
    ELSE Rat(x.n * y.d + y.n * x.d, x.d * y.d)
\* x * y: Infinity * 0 is NaN
RatMul(x, y) == Rat(x.n * y.n, x.d * y.d)
\* x / k for a count k > 0
RatDivInt(x, k) == Rat(x.n, x.d * k)
\* x < y
RatLess(x, y) ==
    IF x = NaN \/ y = NaN THEN FALSE
    ELSE IF x.d = 0 /\ y.d = 0 THEN x.n < y.n
    ELSE x.n * y.d < y.n * x.d
\* x >= y
RatGeq(x, y) == x # NaN /\ y # NaN /\ ~RatLess(x, y)
\* Math.min(a, b) and Math.max(a, b): NaN when an argument is NaN
MathMin(x, y) ==
    IF x = NaN \/ y = NaN THEN NaN ELSE IF RatLess(y, x) THEN y ELSE x
MathMax(x, y) ==
    IF x = NaN \/ y = NaN THEN NaN ELSE IF RatLess(x, y) THEN y ELSE x

RECURSIVE MathPow(_, _)
MathPow(x, k) == IF k = 0 THEN One ELSE RatMul(x, MathPow(x, k - 1))

\* ------------------------------------------------------------------------
\* Text
\* ------------------------------------------------------------------------
\* \s of the regular expressions
Whitespace == {" ", "\t", "\n", "\r"}
\* \p{P}: the punctuation characters that occur in the modelled texts
\* ("<" and ">" are symbols, not punctuation)
Punctuation == {".", ",", "!", "?", "'", ":", ";", "-", "_"}
\* [.!?]
SentenceEnd == {".", "!", "?"}
Digits == {"0", "1", "2", "3", "4", "5", "6", "7", "8", "9"}

DigitVal(c) ==
    CASE c = "0" -> 0 [] c = "1" -> 1 [] c = "2" -> 2 [] c = "3" -> 3
      [] c = "4" -> 4 [] c = "5" -> 5 [] c = "6" -> 6 [] c = "7" -> 7
      [] c = "8" -> 8 [] c = "9" -> 9

\* String.prototype.toLowerCase, on the upper-case letters of the texts
LowerChar(c) ==
    CASE c = "A" -> "a" [] c = "B" -> "b" [] c = "C" -> "c" [] c = "D" -> "d"
      [] c = "E" -> "e" [] c = "J" -> "j" [] c = "M" -> "m" [] c = "N" -> "n"
      [] c = "O" -> "o" [] c = "R" -> "r" [] c = "U" -> "u" [] c = "K" -> "k"
      [] c = "X" -> "x" [] c = "Z" -> "z"
      [] OTHER -> c

toLowerCase(s) == [i \in 1..Len(s) |-> LowerChar(s[i])]

\* the k-th smallest element of a finite set of integers
Nth(S, k) == CHOOSE x \in S : Cardinality({y \in S : y < x}) = k - 1

\* String.prototype.split with a regular expression of the form [seps]+ :
\* the pieces between maximal runs of separators, empty pieces at either end
\* included, and the one-element list of "" for the empty string.
SplitRuns(s, seps) ==
    LET IsSep(i) == s[i] \in seps
        starts == {i \in 1..Len(s) : ~IsSep(i) /\ (i = 1 \/ IsSep(i - 1))}
        ends == {i \in 1..Len(s) : ~IsSep(i) /\ (i = Len(s) \/ IsSep(i + 1))}
        pieces == [k \in 1..Cardinality(starts) |->
                      SubSeq(s, Nth(starts, k), Nth(ends, k))]
    IN  IF Len(s) = 0 THEN << <<>> >>
        ELSE (IF IsSep(1) THEN << <<>> >> ELSE <<>>)
             \o pieces
             \o (IF IsSep(Len(s)) THEN << <<>> >> ELSE <<>>)

\* String.prototype.split with a one-character string: every occurrence
\* separates, so adjacent separators give an empty piece.
SplitOn(s, sep) ==
    LET cuts == {i \in 1..Len(s) : s[i] = sep}
        n == Cardinality(cuts)
        From(k) == IF k = 1 THEN 1 ELSE Nth(cuts, k - 1) + 1
        To(k) == IF k = n + 1 THEN Len(s) ELSE Nth(cuts, k) - 1
    IN  [k \in 1..(n + 1) |-> SubSeq(s, From(k), To(k))]

\* String.prototype.trim
Trim(s) ==
    LET keep == {i \in 1..Len(s) : s[i] \notin Whitespace}
    IN  IF keep = {} THEN <<>>
        ELSE SubSeq(s, Nth(keep, 1), Nth(keep, Cardinality(keep)))

\* String.prototype.trimStart
TrimStart(s) ==
    LET keep == {i \in 1..Len(s) : s[i] \notin Whitespace}
    IN  IF keep = {} THEN <<>> ELSE SubSeq(s, Nth(keep, 1), Len(s))

\* Array.prototype.join
RECURSIVE Join(_, _)
Join(parts, sep) ==
    IF parts = <<>> THEN <<>>
    ELSE IF Len(parts) = 1 THEN parts[1]
         ELSE parts[1] \o sep \o Join(Tail(parts), sep)

Range(seq) == {seq[i] : i \in 1..Len(seq)}

\* the number of matches of s.match(/pat/g), 0 when there is none, for a
\* pattern no two occurrences of which can overlap
CountOccurrences(s, pat) ==
    Cardinality({i \in 1..Len(s) :
                    /\ i + Len(pat) - 1 <= Len(s)
                    /\ SubSeq(s, i, i + Len(pat) - 1) = pat})

\* ------------------------------------------------------------------------
\* JavaScript values
\* ------------------------------------------------------------------------
\* the longest prefix of decimal digits
DigitPrefix(s) ==
    LET stops == {i \in 1..Len(s) : s[i] \notin Digits}
    IN  IF stops = {} THEN s ELSE SubSeq(s, 1, Nth(stops, 1) - 1)

RECURSIVE IntOfDigits(_)
IntOfDigits(ds) ==
    IF ds = <<>> THEN 0
    ELSE 10 * IntOfDigits(SubSeq(ds, 1, Len(ds) - 1)) + DigitVal(ds[Len(ds)])

RECURSIVE Pow10(_)
Pow10(k) == IF k = 0 THEN 1 ELSE 10 * Pow10(k - 1)

TextInfinity == <<"I", "n", "f", "i", "n", "i", "t", "y">>

\* parseFloat: leading white space skipped, an optional sign, then either
\* "Infinity" or decimal digits with an optional fraction; what follows
\* the number is ignored; NaN when neither is found (an absent field,
\* undefined, parses as NaN too).  Exponents do not occur in the modelled
\* files.
parseFloat(text) ==
    LET s0 == TrimStart(text)
        signed == s0 # <<>> /\ Head(s0) \in {"-", "+"}
        neg == s0 # <<>> /\ Head(s0) = "-"
        s1 == IF signed THEN Tail(s0) ELSE s0
        ip == DigitPrefix(s1)
        rest == SubSeq(s1, Len(ip) + 1, Len(s1))
        fp == IF rest # <<>> /\ Head(rest) = "."
              THEN DigitPrefix(Tail(rest)) ELSE <<>>
        mag == IntOfDigits(ip) * Pow10(Len(fp)) + IntOfDigits(fp)
    IN  IF Len(s1) >= Len(TextInfinity)
           /\ SubSeq(s1, 1, Len(TextInfinity)) = TextInfinity
        THEN (IF neg THEN NegInfinity ELSE Infinity)
        ELSE IF ip = <<>> /\ fp = <<>> THEN NaN
        ELSE Rat(IF neg THEN 0 - mag ELSE mag, Pow10(Len(fp)))

\* the decimal text of a natural number (template literal `${i}`)
RECURSIVE IntToText(_)
IntToText(i) ==
    LET d == <<"0", "1", "2", "3", "4", "5", "6", "7", "8", "9">>
    IN  IF i < 10 THEN <<d[i + 1]>>
        ELSE IntToText(i \div 10) \o <<d[(i % 10) + 1]>>

\* An object is the sequence of its own properties [key, value] in the
\* order for-in visits them: integer-like keys first, ascending, then the
\* other keys in the order they were first set.
IsArrayIndex(key) ==
    /\ key # <<>>
    /\ \A i \in 1..Len(key) : key[i] \in Digits
    /\ (Len(key) = 1 \/ key[1] # "0")

HasProperty(obj, key) == \E i \in 1..Len(obj) : obj[i].key = key

PropertyGet(obj, key) ==
    obj[CHOOSE i \in 1..Len(obj) : obj[i].key = key].value

\* obj[key] = value
PropertySet(obj, key, value) ==
    LET p == [key |-> key, value |-> value]
        Before(q) == /\ IsArrayIndex(q.key)
                     /\ IntOfDigits(q.key) < IntOfDigits(key)
    IN  IF HasProperty(obj, key)
        THEN [i \in 1..Len(obj) |->
                 IF obj[i].key = key THEN p ELSE obj[i]]
        ELSE IF IsArrayIndex(key)
             THEN LET k == Cardinality({i \in 1..Len(obj) : Before(obj[i])})
                  IN  SubSeq(obj, 1, k) \o <<p>> \o SubSeq(obj, k + 1, Len(obj))
             ELSE Append(obj, p)

\* ------------------------------------------------------------------------
\* 1. Splitter
\* ------------------------------------------------------------------------
NonEmpty(s) == Len(s) > 0
NonBlank(s) == Len(Trim(s)) > 0

tokenize(text) == SelectSeq(SplitRuns(text, Whitespace \cup Punctuation), NonEmpty)

\* the segments of Splitter.process({src})
SplitterProcess(src) ==
    LET sentences == SelectSeq(SplitRuns(src, SentenceEnd), NonBlank)
    IN  [index \in 1..Len(sentences) |->
            [seg_id |-> <<"s">> \o IntToText(index),
             text   |-> Trim(sentences[index]),
             tokens |-> tokenize(Trim(sentences[index]))]]

\* ------------------------------------------------------------------------
\* 2. DictionaryLookup
\* ------------------------------------------------------------------------
\* the i-th element of a destructured array: undefined past the end, which
\* the code only tests for truthiness or parses, as it does the empty text
Field(fields, i) == IF i <= Len(fields) THEN fields[i] ELSE <<>>

TextUNK == <<"U", "N", "K">>

\* parseFloat(score) || 0.5
ScoreOf(score) ==
    LET v == parseFloat(score)
    IN  IF v = NaN \/ v = Zero THEN Rat(1, 2) ELSE v

\* one iteration of the loop over the lines of the dictionary file
AddDictionaryLine(dictionary, line) ==
    LET fields == SplitOn(line, "\t")
        frWord == Field(fields, 1)
        mosWord == Field(fields, 2)
        pos == Field(fields, 3)
        score == Field(fields, 4)
        key == toLowerCase(frWord)
        entry == [mos |-> mosWord,
                  pos |-> IF pos # <<>> THEN pos ELSE TextUNK,
                  score |-> ScoreOf(score)]
    IN  IF frWord # <<>> /\ mosWord # <<>>
        THEN [k \in DOMAIN dictionary \cup {key} |->
                 IF k = key
                 THEN (IF key \in DOMAIN dictionary
                       THEN dictionary[key] ELSE <<>>) \o <<entry>>
                 ELSE dictionary[k]]
        ELSE dictionary

RECURSIVE AddDictionaryLines(_, _)
AddDictionaryLines(dictionary, lines) ==
    IF lines = <<>> THEN dictionary
    ELSE AddDictionaryLines(AddDictionaryLine(dictionary, Head(lines)),
                            Tail(lines))

\* loadDictionary once readFile has given data: the lines are added to
\* the map as it is at that moment
ParseDictionary(dictionary, data) ==
    AddDictionaryLines(dictionary, SelectSeq(SplitOn(data, "\n"), NonBlank))

EmptyMap == [k \in {} |-> <<>>]

\* the placeholder with the case-folded token in the place of the token
UnknownEntryFolded(token) ==
    [mos |-> <<"<", "U", "N", "K", ":">> \o toLowerCase(token) \o <<">">>,
     pos |-> TextUNK,
     score |-> Rat(1, 10)]

\* the placeholder with score 0 in the place of 0.1
UnknownEntryUnscored(token) ==
    [mos |-> <<"<", "U", "N", "K", ":">> \o token \o <<">">>,
     pos |-> TextUNK,
     score |-> Zero]

\* the entry of a token that is no key of the dictionary
UnknownEntry(token) ==
    [mos |-> <<"<", "U", "N", "K", ":">> \o token \o <<">">>,
     pos |-> TextUNK,
     score |-> Rat(1, 10)]

\* this.dictionary.get(key) || []
DictionaryGet(dictionary, key) ==
    IF key \in DOMAIN dictionary THEN dictionary[key] ELSE <<>>

\* the inner loop of DictionaryLookup.process: segmentResults of a segment
RECURSIVE LookupTokens(_, _, _)
LookupTokens(dictionary, tokens, segmentResults) ==
    IF tokens = <<>> THEN segmentResults
    ELSE LET token == Head(tokens)
             key == toLowerCase(token)
             candidates == DictionaryGet(dictionary, key)
             value == IF Len(candidates) = 0
                      THEN <<UnknownEntry(token)>>
                      ELSE candidates
         IN  LookupTokens(dictionary, Tail(tokens),
                          PropertySet(segmentResults, token, value))

\* the outer loop of DictionaryLookup.process: dictionary_results
RECURSIVE LookupSegments(_, _, _)
LookupSegments(dictionary, segments, results) ==
    IF segments = <<>> THEN results
    ELSE LET segment == Head(segments)
         IN  LookupSegments(dictionary, Tail(segments),
                 PropertySet(results, segment.seg_id,
                             LookupTokens(dictionary, segment.tokens, <<>>)))

DictionaryProcess(dictionary, segments) ==
    LookupSegments(dictionary, segments, <<>>)

\* ------------------------------------------------------------------------
\* 3. CorpusRetriever
\* ------------------------------------------------------------------------
\* the relevance threshold 0.6 of searchCorpus
Threshold == Rat(3, 5)
\* slice(0, 5)
TopK == 5

TextUnknown == <<"u", "n", "k", "n", "o", "w", "n">>

\* A line of the corpus file is what JSON.parse makes of it: a syntax
\* error (json = FALSE) or an object with the fields fr, mos and source,
\* a missing field being the empty text (the code tests truthiness only).
\* One iteration of the loop of loadCorpus.
AddCorpusLine(corpus, line) ==
    IF line.json /\ line.fr # <<>> /\ line.mos # <<>>
    THEN Append(corpus, [fr |-> line.fr, mos |-> line.mos, source |-> line.source])
    ELSE corpus

RECURSIVE AddCorpusLines(_, _)
AddCorpusLines(corpus, lines) ==
    IF lines = <<>> THEN corpus
    ELSE AddCorpusLines(AddCorpusLine(corpus, Head(lines)), Tail(lines))

\* loadCorpus once readFile has given data: the entries are pushed onto
\* the list as it is at that moment
ParseCorpus(corpus, data) == AddCorpusLines(corpus, data)

\* Jaccard similarity of the white-space separated token sets
calculateSimilarity(str1, str2) ==
    LET set1 == Range(SplitRuns(str1, Whitespace))
        set2 == Range(SplitRuns(str2, Whitespace))
        intersection == {x \in set1 : x \in set2}
        union == set1 \cup set2
    IN  IF Cardinality(union) = 0 THEN Zero
        ELSE Rat(Cardinality(intersection), Cardinality(union))

\* similarity >= 0.6
RelevantOrEqual(similarity) == ~RatLess(similarity, Threshold)

\* similarity > 0.6
Relevant(similarity) == RatLess(Threshold, similarity)

\* the loop of searchCorpus: the matches in corpus order
RECURSIVE CollectMatches(_, _)
CollectMatches(corpus, queryLower) ==
    IF corpus = <<>> THEN <<>>
    ELSE LET entry == Head(corpus)
             similarity == calculateSimilarity(queryLower, toLowerCase(entry.fr))
             rest == CollectMatches(Tail(corpus), queryLower)
         IN  IF Relevant(similarity)
             THEN <<[fr |-> entry.fr, mos |-> entry.mos, sim |-> similarity,
                     source |-> IF entry.source # <<>> THEN entry.source
                                ELSE TextUnknown]>> \o rest
             ELSE rest

\* Array.prototype.sort((a, b) => b.sim - a.sim): stable, descending sim
InsertBySim(sorted, m) ==
    LET k == Cardinality({i \in 1..Len(sorted) : ~RatLess(sorted[i].sim, m.sim)})
    IN  SubSeq(sorted, 1, k) \o <<m>> \o SubSeq(sorted, k + 1, Len(sorted))

RECURSIVE SortBySimFrom(_, _)
SortBySimFrom(matches, sorted) ==
    IF matches = <<>> THEN sorted
    ELSE SortBySimFrom(Tail(matches), InsertBySim(sorted, Head(matches)))

SortBySim(matches) == SortBySimFrom(matches, <<>>)

\* Array.prototype.slice(0, k)
Slice(seq, k) == SubSeq(seq, 1, IF Len(seq) < k THEN Len(seq) ELSE k)

searchCorpus(corpus, query) ==
    Slice(SortBySim(CollectMatches(corpus, toLowerCase(query))), TopK)

\* corpus_results of CorpusRetriever.process
CorpusProcess(corpus, segments) ==
    [i \in 1..Len(segments) |->
        [seg_id |-> segments[i].seg_id,
         matches |-> searchCorpus(corpus, segments[i].text)]]

\* ------------------------------------------------------------------------
\* 4. Referee
\* ------------------------------------------------------------------------
\* the loop of composeDictionaryTranslation over the properties of
\* dictResult, in for-in order
RECURSIVE ComposeFrom(_, _)
ComposeFrom(dictResult, acc) ==
    IF dictResult = <<>> THEN acc
    ELSE LET candidates == Head(dictResult).value
         IN  IF Len(candidates) > 0
             THEN ComposeFrom(Tail(dictResult),
                      [mosWords   |-> Append(acc.mosWords, candidates[1].mos),
                       totalScore |-> RatAdd(acc.totalScore, candidates[1].score),
                       wordCount  |-> acc.wordCount + 1])
             ELSE ComposeFrom(Tail(dictResult), acc)

composeDictionaryTranslation(dictResult) ==
    LET r == ComposeFrom(dictResult,
                 [mosWords |-> <<>>, totalScore |-> Zero, wordCount |-> 0])
    IN  [mos |-> Join(r.mosWords, <<" ">>),
         confidence |-> IF r.wordCount > 0
                        THEN RatDivInt(r.totalScore, r.wordCount)
                        ELSE Zero,
         word_count |-> r.wordCount]

\* Number.prototype.toFixed(1): the nearest tenth, the larger one on a tie;
\* "NaN", "Infinity" and "-Infinity" for the numbers that are not finite
toFixed1(x) ==
    IF x = NaN THEN <<"N", "a", "N">>
    ELSE IF x = Infinity THEN TextInfinity
    ELSE IF x = NegInfinity THEN <<"-">> \o TextInfinity
    ELSE LET a == Abs(x.n)
             tenths == (2 * 10 * a + x.d) \div (2 * x.d)
         IN  (IF x.n < 0 THEN <<"-">> ELSE <<>>)
             \o IntToText(tenths \div 10) \o <<".">> \o IntToText(tenths % 10)

Percent(confidence) == toFixed1(RatMul(confidence, Rat(100, 1)))

\* The explanation: template is the fixed text with %s where the number
\* goes, value the text of the number.
generateExplanation(bestCandidate, candidates) ==
    IF Len(candidates) = 0
    THEN [template |-> "No translation candidates found", value |-> <<>>]
    ELSE IF bestCandidate.source = "corpus"
    THEN [template |-> "Corpus match selected with %s% similarity",
          value |-> Percent(bestCandidate.confidence)]
    ELSE IF bestCandidate.source = "dictionary"
    THEN [template |-> "Dictionary composition with %s% average word confidence",
          value |-> Percent(bestCandidate.confidence)]
    ELSE [template |-> "Fallback translation used", value |-> <<>>]

\* the callback with >= in the place of >
BetterOrEqual(best, current) ==
    IF ~RatLess(current.confidence, best.confidence) THEN current ELSE best

\* the callback of candidates.reduce
Better(best, current) ==
    IF RatLess(best.confidence, current.confidence) THEN current ELSE best

\* candidates.reduce(callback) without an initial value
RECURSIVE ReduceFrom(_, _)
ReduceFrom(candidates, best) ==
    IF candidates = <<>> THEN best
    ELSE ReduceFrom(Tail(candidates), Better(best, Head(candidates)))

Untranslated(text) ==
    <<"<", "U", "N", "T", "R", "A", "N", "S", "L", "A", "T", "E", "D", ":">>
    \o text \o <<">">>

CorpusCandidates(matches) ==
    [i \in 1..Len(matches) |->
        [mos |-> matches[i].mos, source |-> "corpus",
         confidence |-> matches[i].sim, details |-> matches[i]]]

\* DictionaryCandidates without the test of the trimmed composition
DictionaryCandidatesUnchecked(dictResult) ==
    LET dictComposition == composeDictionaryTranslation(dictResult)
    IN  <<[mos |-> dictComposition.mos, source |-> "dictionary",
           confidence |-> dictComposition.confidence,
           details |-> dictComposition]>>

\* the dictionary candidate, pushed when the composition is not blank
DictionaryCandidates(dictResult) ==
    LET dictComposition == composeDictionaryTranslation(dictResult)
    IN  IF Len(Trim(dictComposition.mos)) > 0
        THEN <<[mos |-> dictComposition.mos, source |-> "dictionary",
                confidence |-> dictComposition.confidence,
                details |-> dictComposition]>>
        ELSE <<>>

\* the candidates list of makeDecision (the pipeline always passes an
\* object as dictResult and a list as corpusResult.matches)
AssembleCandidates(dictResult, corpusResult) ==
    CorpusCandidates(corpusResult.matches) \o DictionaryCandidates(dictResult)

SelectBest(segment, candidates) ==
    IF Len(candidates) > 0
    THEN ReduceFrom(Tail(candidates), Head(candidates))
    ELSE [mos |-> Untranslated(segment.text), source |-> "none",
          confidence |-> Zero]

makeDecision(segment, dictResult, corpusResult) ==
    LET candidates == AssembleCandidates(dictResult, corpusResult)
        bestCandidate == SelectBest(segment, candidates)
    IN  [seg_id |-> segment.seg_id,
         src_text |-> segment.text,
         final |-> bestCandidate.mos,
         candidates |-> candidates,
         explanation |-> generateExplanation(bestCandidate, candidates)]

\* RefereeProcess with the corpus result of the first segment given to
\* every segment
RefereeProcessFirstCorpus(segments, dictionary_results, corpus_results) ==
    [i \in 1..Len(segments) |->
        makeDecision(segments[i],
                     PropertyGet(dictionary_results, segments[i].seg_id),
                     corpus_results[1])]

\* final_results of Referee.process
RefereeProcess(segments, dictionary_results, corpus_results) ==
    [i \in 1..Len(segments) |->
        makeDecision(segments[i],
                     PropertyGet(dictionary_results, segments[i].seg_id),
                     corpus_results[i])]

\* ------------------------------------------------------------------------
\* 5. Scorer
\* ------------------------------------------------------------------------
UnknownMarker == <<"<", "U", "N", "K", ":">>

\* features.source_confidence
SourceConfidence(result) ==
    IF Len(result.candidates) > 0 THEN result.candidates[1].confidence ELSE Zero

\* LengthRatio with Math.max in the place of Math.min
LengthRatioMax(srcLength, tgtLength) ==
    IF srcLength > 0
    THEN IF tgtLength = 0 THEN Infinity
         ELSE MathMax(Rat(tgtLength, srcLength), Rat(srcLength, tgtLength))
    ELSE Zero

\* features.length_ratio; srcLength / 0 is Infinity, and the minimum 0
LengthRatio(srcLength, tgtLength) ==
    IF srcLength > 0
    THEN IF tgtLength = 0 THEN Zero
         ELSE MathMin(Rat(tgtLength, srcLength), Rat(srcLength, tgtLength))
    ELSE Zero

\* Composite with the bonus applied before the penalties
CompositeBonusFirst(features) ==
    LET c0 == features.source_confidence
        c1 == IF features.candidate_count > 1
              THEN MathMin(One, RatMul(c0, Rat(11, 10)))
              ELSE c0
        c2 == IF features.unknown_words > 0
              THEN RatMul(c1, MathPow(Rat(7, 10), features.unknown_words))
              ELSE c1
        c3 == IF RatLess(features.length_ratio, Rat(3, 10))
              THEN RatMul(c2, Rat(8, 10))
              ELSE c2
    IN  MathMax(Zero, MathMin(One, c3))

\* the composite confidence calculation from the features
Composite(features) ==
    LET c0 == features.source_confidence
        c1 == IF features.unknown_words > 0
              THEN RatMul(c0, MathPow(Rat(7, 10), features.unknown_words))
              ELSE c0
        c2 == IF RatLess(features.length_ratio, Rat(3, 10))
              THEN RatMul(c1, Rat(8, 10))
              ELSE c1
        c3 == IF features.candidate_count > 1
              THEN MathMin(One, RatMul(c2, Rat(11, 10)))
              ELSE c2
    IN  MathMax(Zero, MathMin(One, c3))

calculateCompositeScore(result) ==
    LET features ==
            [source_confidence |-> SourceConfidence(result),
             candidate_count |-> Len(result.candidates),
             length_ratio |-> LengthRatio(Len(result.src_text), Len(result.final)),
             unknown_words |-> CountOccurrences(result.final, UnknownMarker)]
    IN  [confidence |-> Composite(features), features |-> features]

\* scored_results of Scorer.process: {...result, composite_confidence,
\* quality_features}
ScoredResult(result) ==
    LET compositeScore == calculateCompositeScore(result)
    IN  [seg_id |-> result.seg_id,
         src_text |-> result.src_text,
         final |-> result.final,
         candidates |-> result.candidates,
         explanation |-> result.explanation,
         composite_confidence |-> compositeScore.confidence,
         quality_features |-> compositeScore.features]

ScorerProcess(final_results) ==
    [i \in 1..Len(final_results) |-> ScoredResult(final_results[i])]

\* ------------------------------------------------------------------------
\* 6. Logger
\* ------------------------------------------------------------------------
determineStatus(confidence) ==
    IF RatGeq(confidence, Rat(8, 10)) THEN "auto_accepted"
    ELSE IF RatGeq(confidence, Rat(5, 10)) THEN "review_recommended"
    ELSE "manual_review_required"

\* the records of Logger.process (the random id and the timestamp left out)
LoggerRecords(scored_results, id) ==
    [i \in 1..Len(scored_results) |->
        [parent_id |-> id,
         src |-> scored_results[i].src_text,
         tgt |-> scored_results[i].final,
         confidence |-> scored_results[i].composite_confidence,
         status |-> determineStatus(scored_results[i].composite_confidence)]]

\* ------------------------------------------------------------------------
\* Files and sentences
\* ------------------------------------------------------------------------
\* A file is [exists, data]: readFile rejects when exists is FALSE.
\* The first lines of the sample dictionary of setup.js, header included
\* (letters outside Latin-1 are written without their diacritics).
SampleDictData ==
    <<"f", "r", "_", "w", "o", "r", "d", "\t", "m", "o", "s", "_", "w",
      "o", "r", "d", "\t", "p", "o", "s", "\t", "s", "c", "o", "r", "e",
      "\n", "j", "e", "\t", "à", "n", "e", "\t", "P", "R", "O", "N", "\t",
      "0", ".", "9", "5", "\n", "m", "a", "r", "c", "h", "é", "\t", "z",
      "a", "a", "b", "a", "\t", "N", "O", "U", "N", "\t", "0", ".", "9",
      "7", "\n", "a", "u", "\t", "n", "à", "\t", "P", "R", "E", "P", "\t",
      "0", ".", "8", "5", "\n", "b", "o", "n", "j", "o", "u", "r", "\t",
      "n", "e", " ", "b", "e", "e", "d", "ã", "\t", "I", "N", "T", "J",
      "\t", "0", ".", "9", "5", "\n", "e", "l", "l", "e", "\t", "à", "\t",
      "P", "R", "O", "N", "\t", "0", ".", "9", "0">>

\* a dictionary with a repeated key, a short line, a blank line, a line
\* without target, a score of 0, a score above 1, and a key whose second
\* entry has a higher score than its first
OtherDictData ==
    <<"j", "e", "\t", "N", "\t", "P", "R", "O", "N", "\t", "0", ".", "9",
      "5", "\n", "b", "i", "e", "n", "\t", "s", "õ", "m", "a", "\n", "J",
      "e", "\t", "m", "a", "m", "\t", "P", "R", "O", "N", "\t", "0", "\n",
      "\n", "a", "u", "\t", "\t", "P", "R", "E", "P", "\t", "0", ".", "8",
      "5", "\n", "v", "a", "i", "s", "\t", "z", "i", "\t", "V", "E", "R",
      "B", "\t", "0", ".", "9", "\n", "m", "a", "r", "c", "h", "é", "\t",
      "z", "a", "a", "b", "a", "\t", "N", "O", "U", "N", "\t", "1", ".",
      "5", "\n", "b", "i", "e", "n", "\t", "l", "a", "a", "f", "i", "\t",
      "A", "D", "V", "\t", "0", ".", "9">>

MissingFile == [exists |-> FALSE, data |-> <<>>]

DictFiles ==
    {MissingFile,
     [exists |-> TRUE, data |-> SampleDictData],
     [exists |-> TRUE, data |-> OtherDictData]}

TextJeVaisAuMarche ==
    <<"J", "e", " ", "v", "a", "i", "s", " ", "a", "u", " ", "m", "a", "r",
      "c", "h", "é", ".">>
TextJeVaisBien ==
    <<"j", "e", " ", "v", "a", "i", "s", " ", "b", "i", "e", "n">>
TextBonjourComment ==
    <<"B", "o", "n", "j", "o", "u", "r", ",", " ", "c", "o", "m", "m", "e",
      "n", "t", " ", "a", "l", "l", "e", "z", "-", "v", "o", "u", "s", "?">>
TextManual ==
    <<"m", "a", "n", "u", "a", "l", "_", "v", "1">>

JsonLine(fr, mos, source) == [json |-> TRUE, fr |-> fr, mos |-> mos, source |-> source]
InvalidLine == [json |-> FALSE, fr |-> <<>>, mos |-> <<>>, source |-> <<>>]

\* the first entries of the sample corpus of setup.js (targets shortened)
SampleCorpusData ==
    <<JsonLine(TextJeVaisAuMarche, <<"N", " ", "z", "i", " ", "n", "à">>, TextManual),
      JsonLine(TextBonjourComment, <<"N", "e", " ", "b", "e">>, TextManual)>>

\* a corpus with an invalid line, an entry without target, an entry without
\* source and an entry that differs from a sentence in case only
OtherCorpusData ==
    <<JsonLine(TextJeVaisBien, <<"m", "a", "m">>, <<>>),
      InvalidLine,
      JsonLine(TextJeVaisBien, <<>>, TextManual),
      JsonLine(<<"B", "O", "N", "J", "O", "U", "R">>, <<"N", "e">>, TextManual)>>

CorpusFiles ==
    {MissingFile,
     [exists |-> TRUE, data |-> SampleCorpusData],
     [exists |-> TRUE, data |-> OtherCorpusData]}

\* the sentences given to translateSentence
Sentences ==
    {TextJeVaisAuMarche,
     <<"J", "e", " ", "v", "a", "i", "s", ".">>,
     <<"B", "o", "n", "j", "o", "u", "r", ".">>,
     <<"E", "l", "l", "e", ".">>,
     <<"B", "o", "n", "j", "o", "u", "r", "!", " ", "J", "e", " ", "v", "a",
       "i", "s", " ", "b", "i", "e", "n", ".">>,
     <<"X", "a", " ", "z", "u", "!", " ", ",", "?">>}

\* what the model writes for a frenchSentence that is no string (undefined,
\* null): `src.split` of Splitter.process throws a TypeError on it
Undefined == <<"undefined">>
IsString(v) == v # Undefined

\* ------------------------------------------------------------------------
\* 7. AfropairPipeline: state
\* ------------------------------------------------------------------------
VARIABLES
    dictFile,       \* the file at dictPath
    corpusFile,     \* the file at corpusPath
    dictionary,     \* DictionaryLookup.dictionary: key -> list of entries
    dictLoaded,     \* DictionaryLookup.loaded
    dictParses,     \* how many times the dictionary file was parsed into the map
    corpus,         \* CorpusRetriever.corpus
    corpusLoaded,   \* CorpusRetriever.loaded
    corpusParses,   \* how many times the corpus file was parsed into the list
    calls,          \* the translateSentence calls: position, context, result
    output,         \* the records appended to the file at outputPath
    args,           \* the arguments of a direct call of a component method
    returned        \* what the direct call returned

vars == <<dictFile, corpusFile, dictionary, dictLoaded, dictParses, corpus,
          corpusLoaded, corpusParses, calls, output, args, returned>>

tables == <<dictionary, dictLoaded, dictParses, corpus, corpusLoaded, corpusParses>>
files == <<dictFile, corpusFile>>
direct == <<args, returned>>

\* the translateSentence calls that may run on the one pipeline
Calls == {"t1", "t2"}

NoResult == [status |-> "pending", translation |-> <<>>, confidence |-> Zero,
             records |-> <<>>]

IdleCall ==
    [pc |-> "idle", src |-> <<>>, segments |-> <<>>, dictionary_results |-> <<>>,
     corpus_results |-> <<>>, final_results |-> <<>>, scored_results |-> <<>>,
     result |-> NoResult]

NoCall == [op |-> "none"]

\* new AfropairPipeline(): empty tables, nothing loaded
Constructed ==
    /\ dictionary = EmptyMap
    /\ dictLoaded = FALSE
    /\ dictParses = 0
    /\ corpus = <<>>
    /\ corpusLoaded = FALSE
    /\ corpusParses = 0
    /\ calls = [p \in Calls |-> IdleCall]
    /\ output = <<>>

Init ==
    /\ dictFile \in DictFiles
    /\ corpusFile \in CorpusFiles
    /\ Constructed
    /\ args = NoCall
    /\ returned = NoCall

Goto(p, pc, field, value) ==
    calls' = [calls EXCEPT ![p] = [@ EXCEPT !.pc = pc, ![field] = value]]

\* translateSentence(frenchSentence) up to its first await
Translate(p, sentence) ==
    /\ calls[p].pc = "idle"
    /\ Goto(p, "splitter", "src", sentence)
    /\ UNCHANGED <<files, tables, output, direct>>

\* 1. await this.splitter.process(context)
SplitterStep(p) ==
    /\ calls[p].pc = "splitter"
    /\ IsString(calls[p].src)
    /\ Goto(p, "dict_load", "segments", SplitterProcess(calls[p].src))
    /\ UNCHANGED <<files, tables, output, direct>>

\* `src.split` throws inside splitter.process when src is no string: the
\* catch of translateSentence returns success: false
SplitterThrow(p) ==
    /\ calls[p].pc = "splitter"
    /\ ~IsString(calls[p].src)
    /\ Goto(p, "done", "result", [NoResult EXCEPT !.status = "error"])
    /\ UNCHANGED <<files, tables, output, direct>>

\* 2. dictLookup.process calls loadDictionary: it returns at once when
\* loaded is set, and otherwise awaits fs.readFile
LoadDictionaryStart(p) ==
    /\ calls[p].pc = "dict_load"
    /\ calls' = [calls EXCEPT ![p].pc =
                    IF dictLoaded THEN "dict_lookup" ELSE "dict_read"]
    /\ UNCHANGED <<files, tables, output, direct>>

\* LoadDictionaryFinish with a rejected read propagating to the catch of
\* translateSentence, in the place of the catch of loadDictionary
LoadDictionaryFinishThrows(p) ==
    /\ calls[p].pc = "dict_read"
    /\ IF dictFile.exists
       THEN /\ dictionary' = ParseDictionary(dictionary, dictFile.data)
            /\ dictParses' = dictParses + 1
            /\ dictLoaded' = TRUE
            /\ calls' = [calls EXCEPT ![p].pc = "dict_lookup"]
       ELSE /\ Goto(p, "done", "result", [NoResult EXCEPT !.status = "error"])
            /\ UNCHANGED <<dictionary, dictParses, dictLoaded>>
    /\ UNCHANGED <<files, corpus, corpusLoaded, corpusParses, output, direct>>

\* loadDictionary after the await: the lines are added to the map and
\* loaded is set; a rejected read is caught and sets loaded as well
LoadDictionaryFinish(p) ==
    /\ calls[p].pc = "dict_read"
    /\ IF dictFile.exists
       THEN /\ dictionary' = ParseDictionary(dictionary, dictFile.data)
            /\ dictParses' = dictParses + 1
       ELSE UNCHANGED <<dictionary, dictParses>>
    /\ dictLoaded' = TRUE
    /\ calls' = [calls EXCEPT ![p].pc = "dict_lookup"]
    /\ UNCHANGED <<files, corpus, corpusLoaded, corpusParses, output, direct>>

\* DictionaryStep that also stores the placeholder of every unknown token
\* in the dictionary
DictionaryStepCaching(p) ==
    /\ calls[p].pc = "dict_lookup"
    /\ Goto(p, "corpus_load", "dictionary_results",
            DictionaryProcess(dictionary, calls[p].segments))
    /\ dictionary' =
           LET tokens == UNION {Range(calls[p].segments[i].tokens) :
                                   i \in 1..Len(calls[p].segments)}
               keys == {toLowerCase(token) : token \in tokens} \ DOMAIN dictionary
           IN  [k \in DOMAIN dictionary \cup keys |->
                   IF k \in DOMAIN dictionary THEN dictionary[k]
                   ELSE <<UnknownEntry(k)>>]
    /\ UNCHANGED <<files, dictLoaded, dictParses, corpus, corpusLoaded,
                   corpusParses, output, direct>>

\* the rest of dictLookup.process
DictionaryStep(p) ==
    /\ calls[p].pc = "dict_lookup"
    /\ Goto(p, "corpus_load", "dictionary_results",
            DictionaryProcess(dictionary, calls[p].segments))
    /\ UNCHANGED <<files, tables, output, direct>>

\* 3. corpusRetriever.process calls loadCorpus
LoadCorpusStart(p) ==
    /\ calls[p].pc = "corpus_load"
    /\ calls' = [calls EXCEPT ![p].pc =
                    IF corpusLoaded THEN "corpus_search" ELSE "corpus_read"]
    /\ UNCHANGED <<files, tables, output, direct>>

\* loadCorpus after the await
LoadCorpusFinish(p) ==
    /\ calls[p].pc = "corpus_read"
    /\ IF corpusFile.exists
       THEN /\ corpus' = ParseCorpus(corpus, corpusFile.data)
            /\ corpusParses' = corpusParses + 1
       ELSE UNCHANGED <<corpus, corpusParses>>
    /\ corpusLoaded' = TRUE
    /\ calls' = [calls EXCEPT ![p].pc = "corpus_search"]
    /\ UNCHANGED <<files, dictionary, dictLoaded, dictParses, output, direct>>

\* the rest of corpusRetriever.process
CorpusStep(p) ==
    /\ calls[p].pc = "corpus_search"
    /\ Goto(p, "referee", "corpus_results",
            CorpusProcess(corpus, calls[p].segments))
    /\ UNCHANGED <<files, tables, output, direct>>

\* 4. await this.referee.process(context)
RefereeStep(p) ==
    /\ calls[p].pc = "referee"
    /\ Goto(p, "scorer", "final_results",
            RefereeProcess(calls[p].segments, calls[p].dictionary_results,
                           calls[p].corpus_results))
    /\ UNCHANGED <<files, tables, output, direct>>

\* 5. await this.scorer.process(context)
ScorerStep(p) ==
    /\ calls[p].pc = "scorer"
    /\ Goto(p, "logger", "scored_results", ScorerProcess(calls[p].final_results))
    /\ UNCHANGED <<files, tables, output, direct>>

RECURSIVE SumConfidence(_)
SumConfidence(scored_results) ==
    IF scored_results = <<>> THEN Zero
    ELSE RatAdd(Head(scored_results).composite_confidence,
                SumConfidence(Tail(scored_results)))

\* avgConfidence: 0 / 0 is NaN when there is no segment
AvgConfidence(scored_results) ==
    IF Len(scored_results) = 0 THEN NaN
    ELSE RatDivInt(SumConfidence(scored_results), Len(scored_results))

\* 6. await this.logger.process(context), and the return of success
LoggerStep(p) ==
    /\ calls[p].pc = "logger"
    /\ LET records == LoggerRecords(calls[p].scored_results, p)
       IN  /\ output' = output \o records
           /\ Goto(p, "done", "result",
                   [status |-> "success",
                    translation |-> IF Len(records) > 0 THEN records[1].tgt ELSE <<>>,
                    confidence |-> AvgConfidence(calls[p].scored_results),
                    records |-> records])
    /\ UNCHANGED <<files, tables, direct>>

\* fs.mkdir or fs.appendFile rejects: the catch returns success: false
LoggerFail(p) ==
    /\ calls[p].pc = "logger"
    /\ Goto(p, "done", "result", [NoResult EXCEPT !.status = "error"])
    /\ UNCHANGED <<files, tables, output, direct>>

Next ==
    \E p \in Calls :
        \/ \E sentence \in Sentences : Translate(p, sentence)
        \/ SplitterStep(p)
        \/ LoadDictionaryStart(p)
        \/ LoadDictionaryFinish(p)
        \/ DictionaryStep(p)
        \/ LoadCorpusStart(p)
        \/ LoadCorpusFinish(p)
        \/ CorpusStep(p)
        \/ RefereeStep(p)
        \/ ScorerStep(p)
        \/ LoggerStep(p)
        \/ LoggerFail(p)

Spec == Init /\ [][Next]_vars

\* ------------------------------------------------------------------------
\* batchTranslate: one batch on a fresh pipeline, its translateSentence
\* calls run by the call "t1", one after the other
\* ------------------------------------------------------------------------
\* the most sentences of a batch
MaxBatch == 2

\* the elements of frenchSentences: a sentence of one segment, one of two
\* segments, the empty text (no segment), and a value that is no string
BatchSentences ==
    {<<"J", "e", " ", "v", "a", "i", "s", ".">>,
     <<"B", "o", "n", "j", "o", "u", "r", "!", " ", "E", "l", "l", "e", ".">>,
     <<>>,
     Undefined}

BatchInputs ==
    UNION {[1..n -> BatchSentences] : n \in 0..MaxBatch}

\* the batch is args: frenchSentences, the loop index i (from 1), results
\* and successCount
Batching == args # NoCall /\ args.op = "batchTranslate"

\* batchTranslate(frenchSentences) up to the loop
CallBatchTranslate ==
    /\ args = NoCall
    /\ \E frenchSentences \in BatchInputs :
           args' = [op |-> "batchTranslate", frenchSentences |-> frenchSentences,
                    i |-> 1, results |-> <<>>, successCount |-> 0]
    /\ UNCHANGED <<files, tables, calls, output, returned>>

\* the loop body up to the await: translateSentence(sentence, options)
BatchTranslateSentence ==
    /\ Batching
    /\ returned = NoCall
    /\ args.i <= Len(args.frenchSentences)
    /\ Translate("t1", args.frenchSentences[args.i])

\* BatchCollect that counts every result as a success
BatchCollectCountingAll ==
    /\ Batching
    /\ calls["t1"].pc = "done"
    /\ args' = [args EXCEPT !.results = Append(@, calls["t1"].result),
                            !.successCount = @ + 1,
                            !.i = @ + 1]
    /\ calls' = [calls EXCEPT !["t1"] = IdleCall]
    /\ UNCHANGED <<files, tables, output, returned>>

\* the loop body after the await: results.push(result), successCount++ when
\* result.success, i++
BatchCollect ==
    /\ Batching
    /\ calls["t1"].pc = "done"
    /\ args' = [args EXCEPT !.results = Append(@, calls["t1"].result),
                            !.successCount =
                                IF calls["t1"].result.status = "success"
                                THEN @ + 1 ELSE @,
                            !.i = @ + 1]
    /\ calls' = [calls EXCEPT !["t1"] = IdleCall]
    /\ UNCHANGED <<files, tables, output, returned>>

\* the return of batchTranslate after the loop
BatchReturn ==
    /\ Batching
    /\ returned = NoCall
    /\ calls["t1"].pc = "idle"
    /\ args.i > Len(args.frenchSentences)
    /\ returned' = [op |-> "batchTranslate",
                    total |-> Len(args.frenchSentences),
                    successful |-> args.successCount,
                    results |-> args.results]
    /\ UNCHANGED <<files, tables, calls, output, args>>

NextBatch ==
    \/ CallBatchTranslate
    \/ BatchTranslateSentence
    \/ SplitterStep("t1")
    \/ SplitterThrow("t1")
    \/ LoadDictionaryStart("t1")
    \/ LoadDictionaryFinish("t1")
    \/ DictionaryStep("t1")
    \/ LoadCorpusStart("t1")
    \/ LoadCorpusFinish("t1")
    \/ CorpusStep("t1")
    \/ RefereeStep("t1")
    \/ ScorerStep("t1")
    \/ LoggerStep("t1")
    \/ LoggerFail("t1")
    \/ BatchCollect
    \/ BatchReturn

SpecBatch == Init /\ [][NextBatch]_vars

\* ------------------------------------------------------------------------
\* Direct calls of Referee.makeDecision and Scorer.calculateCompositeScore
\* ------------------------------------------------------------------------
\* the most tokens of a dictionary result and the most corpus matches
MaxTokens == 2
MaxMatches == 2

\* score fields of a dictionary file, damaged ones (negative, above 1, not
\* finite) included, and the scores loadDictionary stores for them
RefScoreFields ==
    {<<"-", "0", ".", "5">>, <<"0", ".", "7">>, <<"1">>, <<"1", ".", "5">>,
     TextInfinity, <<"-">> \o TextInfinity}
RefScores == {ScoreOf(field) : field \in RefScoreFields}

\* similarities searchCorpus can give a match
RefSims == {Rat(7, 10), Rat(3, 4), One}

RefSegments ==
    {[seg_id |-> <<"s", "1">>, text |-> <<"a">>, tokens |-> << <<"a">> >>],
     [seg_id |-> <<"s", "1">>, text |-> <<"a", " ", "b", ",", " ", "c">>,
      tokens |-> << <<"a">>, <<"b">>, <<"c">> >>]}

RefTokens == << <<"a">>, <<"b">>, <<"c">>, <<"d">> >>

\* what DictionaryLookup.process can store for a token: the placeholder of
\* an unknown token, or the entries of its key
RefEntryLists(token) ==
    {<<UnknownEntry(token)>>}
    \cup {<<[mos |-> <<"t">>, pos |-> TextUNK, score |-> sc]>> : sc \in RefScores}

\* the dictionary results of the first n tokens
RefDictResultsOf(n) ==
    {[i \in 1..n |-> [key |-> RefTokens[i], value |-> f[i]]] :
        f \in {g \in [1..n -> UNION {RefEntryLists(RefTokens[i]) : i \in 1..n}] :
                  \A i \in 1..n : g[i] \in RefEntryLists(RefTokens[i])}}

\* a token whose only entry has a blank target
BlankDictResult ==
    <<[key |-> <<"a">>,
       value |-> <<[mos |-> <<" ">>, pos |-> TextUNK, score |-> One]>>]>>

RefDictResults ==
    UNION {RefDictResultsOf(n) : n \in 0..MaxTokens} \cup {BlankDictResult}

\* the matches searchCorpus can return: non-increasing in sim
RefMatchesOf(n) ==
    {[i \in 1..n |->
         [fr |-> <<"a">>, mos |-> <<"m">> \o IntToText(i), sim |-> f[i],
          source |-> TextUnknown]] :
        f \in {g \in [1..n -> RefSims] :
                  \A i \in 1..n : i < n => ~RatLess(g[i], g[i + 1])}}

RefMatches == UNION {RefMatchesOf(n) : n \in 0..MaxMatches}

InitReferee ==
    /\ dictFile = MissingFile
    /\ corpusFile = MissingFile
    /\ Constructed
    /\ args \in {[op |-> "makeDecision", segment |-> seg, dictResult |-> dr,
                  corpusResult |-> [seg_id |-> seg.seg_id, matches |-> ms]] :
                    seg \in RefSegments, dr \in RefDictResults, ms \in RefMatches}
    /\ returned = NoCall

\* referee.makeDecision(segment, dictResult, corpusResult)
CallMakeDecision ==
    /\ args.op = "makeDecision"
    /\ returned = NoCall
    /\ returned' = [op |-> "makeDecision",
                    value |-> makeDecision(args.segment, args.dictResult,
                                           args.corpusResult)]
    /\ UNCHANGED <<files, tables, calls, output, args>>

\* scorer.calculateCompositeScore(result) on the decision just made
CallCalculateCompositeScore ==
    /\ returned.op = "makeDecision"
    /\ args' = [op |-> "calculateCompositeScore", result |-> returned.value]
    /\ returned' = [op |-> "calculateCompositeScore",
                    value |-> calculateCompositeScore(returned.value)]
    /\ UNCHANGED <<files, tables, calls, output>>

\* referee.generateExplanation(bestCandidate, candidates) on the candidates
\* of the decision just made, with one of them or with the candidate of
\* origin none as bestCandidate; the function has no throw statement
CallGenerateExplanation ==
    /\ returned.op = "makeDecision"
    /\ \E bestCandidate \in
           Range(returned.value.candidates)
           \cup {[mos |-> Untranslated(args.segment.text), source |-> "none",
                  confidence |-> Zero]} :
           /\ args' = [op |-> "generateExplanation",
                       bestCandidate |-> bestCandidate,
                       candidates |-> returned.value.candidates]
           /\ returned' = [op |-> "generateExplanation",
                           thrown |-> FALSE,
                           value |-> generateExplanation(bestCandidate,
                                         returned.value.candidates)]
    /\ UNCHANGED <<files, tables, calls, output>>

NextReferee ==
    CallMakeDecision \/ CallCalculateCompositeScore \/ CallGenerateExplanation

SpecReferee == InitReferee /\ [][NextReferee]_vars

\* ------------------------------------------------------------------------
\* Properties of makeDecision and calculateCompositeScore (SpecReferee)
\* ------------------------------------------------------------------------
Decided == returned.op = "makeDecision"
Scored == returned.op = "calculateCompositeScore"
\* the Decision at hand
Decision == IF Decided THEN returned.value ELSE args.result

IsBlank(text) == \A i \in 1..Len(text) : text[i] \in Whitespace

\* every token's first target is blank, so the composition is blank
BlankComposition(dictResult) ==
    \A i \in 1..Len(dictResult) :
        Len(dictResult[i].value) > 0 => IsBlank(dictResult[i].value[1].mos)

NoEvidence(a) ==
    Len(a.corpusResult.matches) = 0 /\ BlankComposition(a.dictResult)

SentinelTarget(text) ==
    <<"<", "U", "N", "T", "R", "A", "N", "S", "L", "A", "T", "E", "D", ":">>
    \o text \o <<">">>

FirstMax(candidates) ==
    CHOOSE i \in 1..Len(candidates) :
        /\ \A j \in 1..Len(candidates) :
               ~RatLess(candidates[i].confidence, candidates[j].confidence)
        /\ \A j \in 1..(i - 1) :
               RatLess(candidates[j].confidence, candidates[i].confidence)

DictionaryWon(d) ==
    d.explanation.template = "Dictionary composition with %s% average word confidence"

\* C3: when the candidates list is non-empty the chosen target is that of
\* the earliest candidate of maximal confidence; a dictionary candidate wins
\* only with a confidence strictly above every corpus candidate's.
C3_EarliestMaximumWins ==
    (Decided /\ Len(returned.value.candidates) > 0) =>
        LET d == returned.value
            c == d.candidates
        IN  /\ d.final = c[FirstMax(c)].mos
            /\ d.explanation.value = Percent(c[FirstMax(c)].confidence)
            /\ DictionaryWon(d) <=> c[FirstMax(c)].source = "dictionary"
            /\ DictionaryWon(d) =>
                   \A j \in 1..(Len(c) - 1) :
                       RatLess(c[j].confidence, c[Len(c)].confidence)

\* a corpus candidate and the dictionary candidate tie, and the corpus wins
C3_Witness ==
    /\ Decided
    /\ Len(returned.value.candidates) = 2
    /\ returned.value.candidates[1].source = "corpus"
    /\ returned.value.candidates[2].source = "dictionary"
    /\ returned.value.candidates[1].confidence = returned.value.candidates[2].confidence
    /\ returned.value.final = returned.value.candidates[1].mos

InUnitInterval(x) == x.d > 0 /\ 0 <= x.n /\ x.n <= x.d

\* C5: the composite confidence is a number of [0,1], whatever the
\* candidates' confidences.
C5_CompositeClamped ==
    Scored => InUnitInterval(returned.value.confidence)

\* the marker <UNK: starts at position i of the text
MarkerAt(text, i) ==
    /\ i + 4 <= Len(text)
    /\ text[i] = "<" /\ text[i + 1] = "U" /\ text[i + 2] = "N"
    /\ text[i + 3] = "K" /\ text[i + 4] = ":"

RECURSIVE TimesSevenTenths(_, _)
TimesSevenTenths(x, times) ==
    IF times = 0 THEN x
    ELSE TimesSevenTenths(Rat(7 * x.n, 10 * x.d), times - 1)

\* the sequence of the claim, from the Decision and its source confidence
C6_Sequence(d, sourceConfidence) ==
    LET markers == Cardinality({i \in 1..Len(d.final) : MarkerAt(d.final, i)})
        src == Len(d.src_text)
        tgt == Len(d.final)
        lengthRatio == IF src # 0 /\ tgt # 0
                       THEN (IF tgt * tgt < src * src
                             THEN Rat(tgt, src) ELSE Rat(src, tgt))
                       ELSE Zero
        afterUnknown == TimesSevenTenths(sourceConfidence, markers)
        afterLength == IF 10 * lengthRatio.n < 3 * lengthRatio.d
                       THEN Rat(8 * afterUnknown.n, 10 * afterUnknown.d)
                       ELSE afterUnknown
        bonus == Rat(11 * afterLength.n, 10 * afterLength.d)
        afterBonus == IF Len(d.candidates) > 1
                      THEN (IF bonus.n > bonus.d THEN One ELSE bonus)
                      ELSE afterLength
    IN  IF afterBonus.n < 0 THEN Zero
        ELSE IF afterBonus.n > afterBonus.d THEN One
        ELSE afterBonus

\* C6: the composite confidence is the source confidence times 0.7 per
\* unknown marker of the chosen target, then times 0.8 when the length ratio
\* is below 0.3, then, with more than one candidate, times 1.1 capped at 1,
\* then clamped to [0,1].
C6_CompositeSequence ==
    Scored =>
        returned.value.confidence =
            C6_Sequence(args.result, returned.value.features.source_confidence)

\* a score to which both penalties and the bonus apply
C6_Witness ==
    /\ Scored
    /\ returned.value.features.unknown_words > 0
    /\ RatLess(returned.value.features.length_ratio, Rat(3, 10))
    /\ returned.value.features.candidate_count > 1
    /\ RatLess(Zero, returned.value.confidence)
    /\ RatLess(returned.value.confidence, One)

\* ------------------------------------------------------------------------
\* Direct calls of DictionaryLookup.process on a loaded dictionary
\* ------------------------------------------------------------------------
LookupTables ==
    {EmptyMap,
     ParseDictionary(EmptyMap, SampleDictData),
     ParseDictionary(EmptyMap, OtherDictData)}

LookupTokens6 ==
    {<<"J", "e">>, <<"j", "e">>, <<"v", "a", "i", "s">>, <<"X", "a">>,
     <<"1", "0">>, <<"2">>}

LookupTokenLists ==
    UNION {[1..n -> LookupTokens6] : n \in 0..MaxTokens}

SegmentOf(tokens) ==
    [seg_id |-> <<"s", "1">>, text |-> Join(tokens, <<" ">>), tokens |-> tokens]

InitLookup ==
    /\ dictFile = MissingFile
    /\ corpusFile = MissingFile
    /\ dictionary \in LookupTables
    /\ dictLoaded = TRUE
    /\ dictParses = 1
    /\ corpus = <<>>
    /\ corpusLoaded = FALSE
    /\ corpusParses = 0
    /\ calls = [p \in Calls |-> IdleCall]
    /\ output = <<>>
    /\ args \in {[op |-> "process", segments |-> <<SegmentOf(tokens)>>] :
                    tokens \in LookupTokenLists}
    /\ returned = NoCall

\* dictLookup.process({segments}): loaded is set, so loadDictionary returns
CallDictionaryProcess ==
    /\ args.op = "process"
    /\ dictLoaded
    /\ returned = NoCall
    /\ returned' = [op |-> "process",
                    value |-> DictionaryProcess(dictionary, args.segments)]
    /\ UNCHANGED <<files, tables, calls, output, args>>

\* referee.composeDictionaryTranslation(dictResult) on the lookup of the
\* segment, as Referee.process takes it from dictionary_results
CallComposeDictionaryTranslation ==
    /\ returned.op = "process"
    /\ LET dictResult == PropertyGet(returned.value, args.segments[1].seg_id)
       IN  returned' = [op |-> "composeDictionaryTranslation",
                        dictResult |-> dictResult,
                        value |-> composeDictionaryTranslation(dictResult)]
    /\ UNCHANGED <<files, tables, calls, output, args>>

NextLookup == CallDictionaryProcess \/ CallComposeDictionaryTranslation

SpecLookup == InitLookup /\ [][NextLookup]_vars

Placeholder(token) ==
    [mos |-> <<"<", "U", "N", "K", ":">> \o token \o <<">">>,
     pos |-> <<"U", "N", "K">>,
     score |-> Rat(1, 10)]

IsPlaceholder(entry) ==
    Len(entry.mos) >= 5 /\ SubSeq(entry.mos, 1, 5) = <<"<", "U", "N", "K", ":">>

\* C7: a token whose case-folded form is no key of the dictionary gets
\* exactly one entry, the placeholder <UNK:token> with the token as written,
\* score 0.1 and part of speech UNK; a token whose case-folded form is a key
\* gets that key's entries and no placeholder; every token gets a result.
C7_LookupPlaceholder ==
    returned.op = "process" =>
        \A k \in 1..Len(args.segments) :
            LET segment == args.segments[k]
                found == PropertyGet(returned.value, segment.seg_id)
            IN  /\ HasProperty(returned.value, segment.seg_id)
                /\ \A i \in 1..Len(found) : found[i].key \in Range(segment.tokens)
                /\ \A token \in Range(segment.tokens) :
                       /\ HasProperty(found, token)
                       /\ IF toLowerCase(token) \in DOMAIN dictionary
                          THEN /\ PropertyGet(found, token) = dictionary[toLowerCase(token)]
                               /\ \A j \in 1..Len(PropertyGet(found, token)) :
                                      ~IsPlaceholder(PropertyGet(found, token)[j])
                          ELSE PropertyGet(found, token) = <<Placeholder(token)>>

\* a lookup of an upper-case token that is no key and of one that is a key
C7_Witness ==
    /\ returned.op = "process"
    /\ args.segments[1].tokens = << <<"X", "a">>, <<"J", "e">> >>
    /\ <<"j", "e">> \in DOMAIN dictionary
    /\ PropertyGet(returned.value[1].value, <<"X", "a">>)[1].score = Rat(1, 10)
    /\ Len(PropertyGet(returned.value[1].value, <<"J", "e">>)) = 2

\* ------------------------------------------------------------------------
\* Direct calls of CorpusRetriever.searchCorpus on a loaded corpus
\* ------------------------------------------------------------------------
\* the most entries of the corpus
MaxCorpus == 6

SearchQuery == <<"a", " ", "B", " ", "c", " ", "d">>

\* entries of similarity 1, 3/4, 3/4 and 3/5 to the query
SearchEntries ==
    {[fr |-> <<"A", " ", "b", " ", "c", " ", "d">>, mos |-> <<"k", "1">>, source |-> <<>>],
     [fr |-> <<"a", " ", "b", " ", "c">>, mos |-> <<"k", "2">>, source |-> TextManual],
     [fr |-> <<"b", " ", "c", " ", "d">>, mos |-> <<"k", "3">>, source |-> TextManual],
     [fr |-> <<"a", " ", "b", " ", "c", " ", "e">>, mos |-> <<"k", "4">>, source |-> TextManual]}

InitSearch ==
    /\ dictFile = MissingFile
    /\ corpusFile = MissingFile
    /\ dictionary = EmptyMap
    /\ dictLoaded = FALSE
    /\ dictParses = 0
    /\ corpus \in UNION {[1..n -> SearchEntries] : n \in 0..MaxCorpus}
    /\ corpusLoaded = TRUE
    /\ corpusParses = 1
    /\ calls = [p \in Calls |-> IdleCall]
    /\ output = <<>>
    /\ args = [op |-> "searchCorpus", query |-> SearchQuery]
    /\ returned = NoCall

\* corpusRetriever.searchCorpus(query)
CallSearchCorpus ==
    /\ args.op = "searchCorpus"
    /\ returned = NoCall
    /\ returned' = [op |-> "searchCorpus", value |-> searchCorpus(corpus, args.query)]
    /\ UNCHANGED <<files, tables, calls, output, args>>

NextSearch == CallSearchCorpus

SpecSearch == InitSearch /\ [][NextSearch]_vars

\* the similarity of every corpus entry to the query of the call
RECURSIVE SimsOf(_, _)
SimsOf(entries, query) ==
    IF entries = <<>> THEN <<>>
    ELSE <<calculateSimilarity(toLowerCase(query), toLowerCase(Head(entries).fr))>>
         \o SimsOf(Tail(entries), query)

\* how many entries of the set q come before entry i in descending
\* similarity, corpus order breaking ties
RankIn(q, sims, i) ==
    Cardinality({j \in q : \/ sims[i].n * sims[j].d < sims[j].n * sims[i].d
                           \/ (sims[j] = sims[i] /\ j < i)})

\* the matches m are the five highest entries above the threshold, given
\* the similarities of the entries
TopFiveOf(m, entries, sims) ==
    LET qualified == {i \in 1..Len(entries) : 5 * sims[i].n > 3 * sims[i].d}
    IN  /\ Len(m) <= 5
        /\ Len(m) = (IF Cardinality(qualified) < 5
                     THEN Cardinality(qualified) ELSE 5)
        /\ \A k \in 1..Len(m) : 5 * m[k].sim.n > 3 * m[k].sim.d
        /\ \A k \in 1..(Len(m) - 1) : ~RatLess(m[k].sim, m[k + 1].sim)
        /\ \A k \in 1..Len(m) :
               \E i \in qualified :
                   /\ RankIn(qualified, sims, i) = k - 1
                   /\ m[k].fr = entries[i].fr
                   /\ m[k].mos = entries[i].mos
                   /\ m[k].sim = sims[i]
        /\ \A i \in qualified :
               RankIn(qualified, sims, i) >= 5 =>
                   \A k \in 1..Len(m) : ~RatLess(m[k].sim, sims[i])

\* C8: searchCorpus returns at most 5 matches, each of similarity strictly
\* above 0.6, in non-increasing similarity with corpus order among equals,
\* and they are the highest of the corpus: the k-th match is the entry
\* above the threshold that k - 1 such entries precede.
C8_SearchTopFive ==
    returned.op = "searchCorpus" =>
        TopFiveOf(returned.value, corpus, SimsOf(corpus, args.query))

\* six entries above the threshold, the best one last: five matches, the
\* best first, the equal ones in corpus order, the last entry but one left out
C8_Witness ==
    /\ returned.op = "searchCorpus"
    /\ Len(corpus) = 6
    /\ \A i \in 1..5 : corpus[i].mos = (IF i = 2 THEN <<"k", "3">> ELSE <<"k", "2">>)
    /\ corpus[6].mos = <<"k", "1">>
    /\ Len(returned.value) = 5
    /\ returned.value[1].mos = <<"k", "1">>
    /\ returned.value[2].mos = <<"k", "2">>
    /\ returned.value[3].mos = <<"k", "3">>
    /\ returned.value[4].mos = <<"k", "2">>
    /\ returned.value[5].mos = <<"k", "2">>

\* ------------------------------------------------------------------------
\* Properties of the pipeline (Spec)
\* ------------------------------------------------------------------------
\* the tables after exactly one load of the files
DictionaryLoadedOnce ==
    IF dictFile.exists THEN ParseDictionary(EmptyMap, dictFile.data) ELSE EmptyMap

CorpusLoadedOnce ==
    IF corpusFile.exists THEN ParseCorpus(<<>>, corpusFile.data) ELSE <<>>

\* C1 as stated: whatever the interleaving of the load calls, each file is
\* parsed into its table at most once and a loaded table holds what one
\* load gives (no entry twice).
C1_LoadIdempotent ==
    /\ dictParses <= 1
    /\ corpusParses <= 1
    /\ dictLoaded => dictionary = DictionaryLoadedOnce
    /\ corpusLoaded => corpus = CorpusLoadedOnce

\* the calls whose scorer has returned
ScoredCalls == {p \in Calls : calls[p].pc \in {"logger", "done"}}

\* C4 as stated: the source_confidence feature of every scored result is
\* the confidence of its winning candidate, and 0 when it has no candidate.
C4_SourceConfidenceOfWinner ==
    \A p \in ScoredCalls :
        \A i \in 1..Len(calls[p].scored_results) :
            LET r == calls[p].scored_results[i]
            IN  r.quality_features.source_confidence =
                    (IF Len(r.candidates) > 0
                     THEN r.candidates[FirstMax(r.candidates)].confidence
                     ELSE Zero)

\* C9 as stated: with a corpus entry whose source text is exactly
\* "Je vais au marché.", translating that sentence gives a corpus match of
\* similarity 1, the corpus candidate wins, the explanation cites 100.0%
\* and the composite confidence is 1.
C9_ExactSentenceWins ==
    \A p \in ScoredCalls :
        (/\ calls[p].src = TextJeVaisAuMarche
         /\ \E i \in 1..Len(corpus) : corpus[i].fr = TextJeVaisAuMarche) =>
            LET r == calls[p].scored_results[1]
                matches == calls[p].corpus_results[1].matches
            IN  /\ Len(matches) > 0
                /\ matches[1].fr = TextJeVaisAuMarche
                /\ matches[1].sim = One
                /\ r.final = matches[1].mos
                /\ r.explanation = [template |-> "Corpus match selected with %s% similarity",
                                    value |-> <<"1", "0", "0", ".", "0">>]
                /\ r.composite_confidence = One

\* segment i of call p has a token, none of its tokens is a key of the
\* dictionary and the corpus gave no match
ZeroCoverage(p, i) ==
    /\ Len(calls[p].segments[i].tokens) >= 1
    /\ \A token \in Range(calls[p].segments[i].tokens) :
           toLowerCase(token) \notin DOMAIN dictionary
    /\ Len(calls[p].corpus_results[i].matches) = 0

\* C10 as stated: a segment with a token, no dictionary coverage and no
\* corpus match gets the sentinel (origin none, <UNTRANSLATED:text>) and
\* composite confidence 0.
C10_ZeroCoverageGivesSentinel ==
    \A p \in ScoredCalls :
        \A i \in 1..Len(calls[p].segments) :
            ZeroCoverage(p, i) =>
                LET r == calls[p].scored_results[i]
                IN  /\ r.final = SentinelTarget(calls[p].segments[i].text)
                    /\ r.explanation.template = "No translation candidates found"
                    /\ r.composite_confidence = Zero

\* C10 amended: such a segment gets the dictionary candidate as its only
\* candidate: confidence 0.1, target the <UNK:token> placeholders of its
\* distinct tokens, and the composite confidence is 0.1 times 0.7 per
\* distinct token, times 0.8 when the length ratio is below 0.3: above 0.
C10_ZeroCoverageGivesPlaceholders ==
    \A p \in ScoredCalls :
        \A i \in 1..Len(calls[p].segments) :
            ZeroCoverage(p, i) =>
                LET r == calls[p].scored_results[i]
                    distinct == Cardinality(Range(calls[p].segments[i].tokens))
                    decayed == TimesSevenTenths(Rat(1, 10), distinct)
                IN  /\ Len(r.candidates) = 1
                    /\ r.candidates[1].source = "dictionary"
                    /\ r.candidates[1].confidence = Rat(1, 10)
                    /\ r.final = r.candidates[1].mos
                    /\ r.final # SentinelTarget(calls[p].segments[i].text)
                    /\ \A token \in Range(calls[p].segments[i].tokens) :
                           \E k \in 1..Len(r.final) :
                               SubSeq(r.final, k, k + Len(token) + 5)
                                   = <<"<", "U", "N", "K", ":">> \o token \o <<">">>
                    /\ r.quality_features.unknown_words = distinct
                    /\ r.composite_confidence =
                           (IF RatLess(r.quality_features.length_ratio, Rat(3, 10))
                            THEN Rat(8 * decayed.n, 10 * decayed.d)
                            ELSE decayed)
                    /\ RatLess(Zero, r.composite_confidence)

\* the sentence "Xa zu! ,?" translated to the end with no table entry for it
C10_Witness ==
    \E p \in Calls :
        /\ calls[p].pc = "done"
        /\ calls[p].result.status = "success"
        /\ calls[p].src = <<"X", "a", " ", "z", "u", "!", " ", ",", "?">>
        /\ ZeroCoverage(p, 1)
        /\ calls[p].scored_results[1].composite_confidence = Rat(49, 1250)

\* the sum of the first-entry scores of the keys of a set of tokens
RECURSIVE SumFirstScores(_)
SumFirstScores(tokens) ==
    IF tokens = {} THEN Zero
    ELSE LET token == CHOOSE t \in tokens : TRUE
         IN  RatAdd(dictionary[toLowerCase(token)][1].score,
                    SumFirstScores(tokens \ {token}))

MeanFirstScore(tokens) == RatDivInt(SumFirstScores(tokens), Cardinality(tokens))

\* segment i of call p has a token, every token is a key of the dictionary
\* and the corpus is empty
FullCoverage(p, i) ==
    /\ corpus = <<>>
    /\ Len(calls[p].segments[i].tokens) >= 1
    /\ \A token \in Range(calls[p].segments[i].tokens) :
           toLowerCase(token) \in DOMAIN dictionary

LookedUpCalls ==
    {p \in Calls : calls[p].pc \in {"corpus_load", "corpus_read", "corpus_search",
                                     "referee", "scorer", "logger", "done"}
                    /\ calls[p].dictionary_results # <<>>}
SearchedCalls ==
    {p \in Calls : calls[p].pc \in {"referee", "scorer", "logger", "done"}
                    /\ calls[p].corpus_results # <<>>}

\* C12: with the dictionary file missing the load leaves the map empty and
\* marks it loaded, and every lookup gives every token its placeholder; with
\* the corpus file missing the load leaves the list empty and marks it
\* loaded, and every search gives no match; a call that does not return
\* success has failed in the logger, after all its segments were scored.
C12_MissingFileFailsSoftly ==
    /\ ~dictFile.exists =>
           /\ dictionary = EmptyMap
           /\ \A p \in Calls :
                  calls[p].pc \in {"dict_lookup", "corpus_load", "corpus_read",
                                   "corpus_search", "referee", "scorer", "logger"}
                      => dictLoaded
           /\ \A p \in LookedUpCalls :
                  \A i \in 1..Len(calls[p].segments) :
                      LET segment == calls[p].segments[i]
                          found == PropertyGet(calls[p].dictionary_results, segment.seg_id)
                      IN  \A token \in Range(segment.tokens) :
                              PropertyGet(found, token) = <<Placeholder(token)>>
    /\ ~corpusFile.exists =>
           /\ corpus = <<>>
           /\ \A p \in Calls :
                  calls[p].pc \in {"corpus_search", "referee", "scorer", "logger"}
                      => corpusLoaded
           /\ \A p \in SearchedCalls :
                  /\ Len(calls[p].corpus_results) = Len(calls[p].segments)
                  /\ \A i \in 1..Len(calls[p].corpus_results) :
                         calls[p].corpus_results[i].matches = <<>>
    /\ \A p \in Calls :
           /\ calls[p].result.status # "pending" => calls[p].pc = "done"
           /\ calls[p].result.status = "error" =>
                  /\ Len(calls[p].segments) >= 1
                  /\ Len(calls[p].scored_results) = Len(calls[p].segments)

\* both files missing, and a sentence translated to the end with success:
\* placeholders for its tokens
C12_Witness ==
    /\ ~dictFile.exists /\ ~corpusFile.exists
    /\ dictLoaded /\ corpusLoaded
    /\ calls["t1"].pc = "done"
    /\ calls["t1"].result.status = "success"
    /\ calls["t1"].src = <<"J", "e", " ", "v", "a", "i", "s", ".">>
    /\ calls["t1"].result.translation =
           <<"<", "U", "N", "K", ":", "J", "e", ">", " ",
             "<", "U", "N", "K", ":", "v", "a", "i", "s", ">">>

\* the calls whose referee has returned
RefereedCalls == {p \in Calls : calls[p].pc \in {"scorer", "logger", "done"}}

\* the Decision d carries segment and was decided from the dictionary
\* result found and the matches: its corpus candidates are the matches in
\* their order, its dictionary candidate is composed from the targets found
\* for the tokens of the segment
DecidedFrom(d, segment, found, matches) ==
    LET corpusPart == SelectSeq(d.candidates, LAMBDA c : c.source = "corpus")
        dictPart == SelectSeq(d.candidates, LAMBDA c : c.source = "dictionary")
    IN  /\ d.seg_id = segment.seg_id
        /\ d.src_text = segment.text
        /\ Len(corpusPart) = Len(matches)
        /\ \A k \in 1..Len(matches) : corpusPart[k].details = matches[k]
        /\ Len(dictPart) <= 1
        /\ \A k \in 1..Len(dictPart) :
               /\ dictPart[k].details.word_count = Len(found)
               /\ dictPart[k].mos = Join([j \in 1..Len(found) |-> found[j].value[1].mos],
                                        <<" ">>)
        /\ \A j \in 1..Len(found) : found[j].key \in Range(segment.tokens)

\* C13: final_results and scored_results have one element per segment, in
\* segment order; the i-th carries the seg_id and text of the i-th segment
\* and was decided from that segment's dictionary result and corpus matches.
C13_OneDecisionPerSegment ==
    /\ \A p \in RefereedCalls :
           /\ Len(calls[p].final_results) = Len(calls[p].segments)
           /\ Len(calls[p].corpus_results) = Len(calls[p].segments)
           /\ \A i \in 1..Len(calls[p].segments) :
                  /\ calls[p].corpus_results[i].seg_id = calls[p].segments[i].seg_id
                  /\ DecidedFrom(calls[p].final_results[i], calls[p].segments[i],
                         PropertyGet(calls[p].dictionary_results,
                                     calls[p].segments[i].seg_id),
                         calls[p].corpus_results[i].matches)
           /\ \A i, j \in 1..Len(calls[p].segments) :
                  calls[p].segments[i].seg_id = calls[p].segments[j].seg_id => i = j
    /\ \A p \in ScoredCalls :
           /\ Len(calls[p].scored_results) = Len(calls[p].segments)
           /\ \A i \in 1..Len(calls[p].segments) :
                  LET r == calls[p].scored_results[i]
                      d == calls[p].final_results[i]
                  IN  /\ r.seg_id = calls[p].segments[i].seg_id
                      /\ r.src_text = calls[p].segments[i].text
                      /\ r.final = d.final
                      /\ r.candidates = d.candidates
                      /\ r.quality_features.candidate_count = Len(d.candidates)

\* a sentence of two segments, each with a corpus match of its own
C13_Witness ==
    /\ calls["t1"].pc = "done"
    /\ Len(calls["t1"].segments) = 2
    /\ Len(calls["t1"].scored_results) = 2
    /\ calls["t1"].scored_results[1].src_text = <<"B", "o", "n", "j", "o", "u", "r">>
    /\ calls["t1"].scored_results[1].final = <<"N", "e">>
    /\ calls["t1"].scored_results[2].seg_id = <<"s", "2">>
    /\ calls["t1"].scored_results[2].final = <<"m", "a", "m">>

\* no read of the dictionary file, resp. the corpus file, is in flight
NoDictionaryRead == \A q \in Calls : calls[q].pc # "dict_read"
NoCorpusRead == \A q \in Calls : calls[q].pc # "corpus_read"

\* C14: once a load has completed and no load that began before its
\* completion is still reading, no step changes the table; a load call made
\* after the completion returns without reading; and no step of a lookup, a
\* search, the referee, the scorer or the logger changes either table.
C14_TablesReadOnlyAfterLoad ==
    [][/\ (dictLoaded /\ NoDictionaryRead) =>
              /\ UNCHANGED <<dictionary, dictLoaded, dictParses>>
              /\ NoDictionaryRead'
       /\ (corpusLoaded /\ NoCorpusRead) =>
              /\ UNCHANGED <<corpus, corpusLoaded, corpusParses>>
              /\ NoCorpusRead'
       /\ \A p \in Calls :
              (/\ calls[p].pc \in {"dict_lookup", "corpus_search", "referee",
                                   "scorer", "logger"}
               /\ calls'[p] # calls[p]) => UNCHANGED tables
       /\ \A p \in Calls :
              (/\ calls[p].pc = "dict_load" /\ dictLoaded
               /\ calls'[p] # calls[p]) =>
                  (UNCHANGED tables /\ calls'[p].pc = "dict_lookup")
       /\ \A p \in Calls :
              (/\ calls[p].pc = "corpus_load" /\ corpusLoaded
               /\ calls'[p] # calls[p]) =>
                  (UNCHANGED tables /\ calls'[p].pc = "corpus_search")]_vars

\* two calls translated to the end, the second one begun after the loads
\* of the first: each file parsed once, the tables as loaded
C14_Witness ==
    /\ calls["t1"].pc = "done" /\ calls["t2"].pc = "done"
    /\ dictParses = 1 /\ corpusParses = 1
    /\ dictionary = DictionaryLoadedOnce /\ dictionary # EmptyMap
    /\ corpus = CorpusLoadedOnce /\ corpus # <<>>
    /\ calls["t2"].src = <<"X", "a", " ", "z", "u", "!", " ", ",", "?">>

\* ------------------------------------------------------------------------
\* Direct calls of CorpusRetriever.calculateSimilarity
\* ------------------------------------------------------------------------
\* texts with no, one, two and three words, repeated words, and white space
\* at the start, at the end and doubled
SimTexts ==
    {<<>>, <<" ">>, <<"a">>, <<"b">>, <<"a", " ", "b">>, <<"b", " ", "a">>,
     <<"a", " ", "a">>, <<" ", "a">>, <<"a", " ">>, <<"a", " ", " ", "b">>,
     <<"b", " ", "c">>, <<"a", " ", "b", " ", "c">>, <<"a", "b">>}

InitSimilarity ==
    /\ dictFile = MissingFile
    /\ corpusFile = MissingFile
    /\ Constructed
    /\ args \in {[op |-> "calculateSimilarity", str1 |-> a, str2 |-> b] :
                    a \in SimTexts, b \in SimTexts}
    /\ returned = NoCall

\* corpusRetriever.calculateSimilarity(str1, str2)
CallCalculateSimilarity ==
    /\ args.op = "calculateSimilarity"
    /\ returned = NoCall
    /\ returned' = [op |-> "calculateSimilarity",
                    value |-> calculateSimilarity(args.str1, args.str2)]
    /\ UNCHANGED <<files, tables, calls, output, args>>

\* corpusRetriever.calculateSimilarity(str2, str1), after the call above
CallCalculateSimilaritySwapped ==
    /\ returned.op = "calculateSimilarity"
    /\ returned' = [op |-> "calculateSimilaritySwapped",
                    value |-> returned.value,
                    swapped |-> calculateSimilarity(args.str2, args.str1)]
    /\ UNCHANGED <<files, tables, calls, output, args>>

NextSimilarity == CallCalculateSimilarity \/ CallCalculateSimilaritySwapped

SpecSimilarity == InitSimilarity /\ [][NextSimilarity]_vars

\* the token set of a text: its maximal runs of characters other than
\* white space
WordsOf(text) ==
    {SubSeq(text, r[1], r[2]) :
        r \in {q \in (1..Len(text)) \X (1..Len(text)) :
                  /\ q[1] <= q[2]
                  /\ \A k \in q[1]..q[2] : text[k] \notin Whitespace
                  /\ (q[1] = 1 \/ text[q[1] - 1] \in Whitespace)
                  /\ (q[2] = Len(text) \/ text[q[2] + 1] \in Whitespace)}}

\* C15 as stated: the similarity is symmetric, 1 for a non-empty text and
\* itself, in [0,1], and 0 when the union of the two token sets is empty.
C15_JaccardProperties ==
    returned.op = "calculateSimilaritySwapped" =>
        /\ returned.value = returned.swapped
        /\ (args.str1 = args.str2 /\ args.str1 # <<>>) => returned.value = One
        /\ InUnitInterval(returned.value)
        /\ (WordsOf(args.str1) \cup WordsOf(args.str2) = {}) => returned.value = Zero

\* the properties that hold of every pair of texts: symmetric, 1 for a text
\* and itself, in [0,1]; and 0 is never the value of two texts without words
C15_SymmetricReflexiveBounded ==
    returned.op = "calculateSimilaritySwapped" =>
        /\ returned.value = returned.swapped
        /\ args.str1 = args.str2 => returned.value = One
        /\ InUnitInterval(returned.value)
        /\ (WordsOf(args.str1) \cup WordsOf(args.str2) = {}) => returned.value = One

\* ------------------------------------------------------------------------
\* Properties of the loaded dictionary (Spec)
\* ------------------------------------------------------------------------
\* C16 as stated: once the dictionary file is loaded, every key's entry
\* list is in descending order of score, so its first entry has the highest
\* score of the key.
C16_EntriesByDescendingScore ==
    (dictLoaded /\ dictParses = 1) =>
        \A key \in DOMAIN dictionary :
            LET entries == dictionary[key]
            IN  /\ \A i, j \in 1..Len(entries) :
                       i < j => ~RatLess(entries[i].score, entries[j].score)
                /\ \A j \in 1..Len(entries) :
                       ~RatLess(entries[1].score, entries[j].score)

\* the records of a dictionary file that have a source and a target field
RecordsOf(data) ==
    LET lines == SelectSeq(SplitOn(data, "\n"), NonBlank)
        fields == [i \in 1..Len(lines) |-> SplitOn(lines[i], "\t")]
    IN  SelectSeq(fields, LAMBDA f : Field(f, 1) # <<>> /\ Field(f, 2) # <<>>)

\* the entry the claim expects of a record: the score field where it
\* parses as a float, 0.5 where it does not
ExpectedEntry(f) ==
    [mos |-> f[2],
     pos |-> IF Field(f, 3) = <<>> THEN <<"U", "N", "K">> ELSE f[3],
     score |-> LET v == parseFloat(Field(f, 4))
               IN  IF v = NaN THEN Rat(1, 2) ELSE v]

\* C17 as stated: after one load, the keys are the case-folded sources of
\* the records, and the entries of a key are those of its records in file
\* order, each with the score of its score field where that parses as a float
\* (0 included) and 0.5 where the field is absent or does not parse.
C17_ScoreFieldStored ==
    (dictLoaded /\ dictParses = 1) =>
        LET recs == RecordsOf(dictFile.data)
        IN  /\ DOMAIN dictionary = {toLowerCase(recs[i][1]) : i \in 1..Len(recs)}
            /\ \A key \in DOMAIN dictionary :
                   LET own == SelectSeq(recs, LAMBDA f : toLowerCase(f[1]) = key)
                   IN  dictionary[key] = [i \in 1..Len(own) |-> ExpectedEntry(own[i])]

\* what does hold: as C17, but a score field that parses as 0 is stored
\* as 0.5 as well
C17_ZeroScoreDefaults ==
    (dictLoaded /\ dictParses = 1) =>
        LET recs == RecordsOf(dictFile.data)
            Stored(f) == LET e == ExpectedEntry(f)
                         IN  IF e.score = Zero THEN [e EXCEPT !.score = Rat(1, 2)]
                             ELSE e
        IN  /\ DOMAIN dictionary = {toLowerCase(recs[i][1]) : i \in 1..Len(recs)}
            /\ \A key \in DOMAIN dictionary :
                   LET own == SelectSeq(recs, LAMBDA f : toLowerCase(f[1]) = key)
                   IN  dictionary[key] = [i \in 1..Len(own) |-> Stored(own[i])]

\* ------------------------------------------------------------------------
\* Properties of composeDictionaryTranslation (SpecLookup)
\* ------------------------------------------------------------------------
Composed == returned.op = "composeDictionaryTranslation"

\* the distinct tokens in the order of their first occurrence
InOrderOfOccurrence(tokens) ==
    LET first == {i \in 1..Len(tokens) : \A j \in 1..(i - 1) : tokens[j] # tokens[i]}
    IN  [k \in 1..Cardinality(first) |-> tokens[Nth(first, k)]]

RECURSIVE SumOfScores(_)
SumOfScores(entries) ==
    IF entries = <<>> THEN Zero
    ELSE RatAdd(Head(entries).score, SumOfScores(Tail(entries)))

\* the composition of the first entries found for the keys, in that order
\* of the keys
ComposedInOrder(keys, found, value) ==
    LET firsts == [k \in 1..Len(keys) |-> PropertyGet(found, keys[k])[1]]
    IN  /\ value.mos = Join([k \in 1..Len(keys) |-> firsts[k].mos], <<" ">>)
        /\ value.word_count = Len(keys)
        /\ value.confidence = (IF Len(keys) = 0 THEN Zero
                               ELSE RatDivInt(SumOfScores(firsts), Len(keys)))

\* C18 as stated: the composition joins the first-entry targets of the
\* tokens in the order the tokens occur in the segment, tokens of digits
\* included, its confidence is the mean of those first-entry scores, and an
\* empty lookup gives the empty text and confidence 0.
C18_ComposedInTokenOrder ==
    Composed =>
        ComposedInOrder(InOrderOfOccurrence(args.segments[1].tokens),
                        returned.dictResult, returned.value)

\* what does hold: the same composition in the order in which for-in
\* enumerates the keys of the lookup (keys that are array indices first, in
\* ascending numeric order, then the other keys in the order of occurrence)
C18_ComposedInPropertyOrder ==
    Composed =>
        LET tokens == InOrderOfOccurrence(args.segments[1].tokens)
            indices == SelectSeq(tokens, IsArrayIndex)
            others == SelectSeq(tokens, LAMBDA t : ~IsArrayIndex(t))
            keys == [k \in 1..Len(returned.dictResult) |-> returned.dictResult[k].key]
        IN  /\ ComposedInOrder(keys, returned.dictResult, returned.value)
            /\ Range(keys) = Range(tokens) /\ Len(keys) = Len(tokens)
            /\ SelectSeq(keys, LAMBDA t : ~IsArrayIndex(t)) = others
            /\ Len(indices) > 0 => SubSeq(keys, 1, Len(indices)) \in
                   {q \in [1..Len(indices) -> Range(indices)] :
                       \A a, b \in 1..Len(q) :
                           a < b => IntOfDigits(q[a]) < IntOfDigits(q[b])}

\* ------------------------------------------------------------------------
\* Properties of generateExplanation (SpecReferee)
\* ------------------------------------------------------------------------
\* the explanation of a decision follows from the origin of its winner
ExplainedByOrigin(d) ==
    IF Len(d.candidates) = 0
    THEN d.explanation = [template |-> "No translation candidates found",
                          value |-> <<>>]
    ELSE LET winner == d.candidates[FirstMax(d.candidates)]
         IN  /\ d.final = winner.mos
             /\ d.explanation.value = Percent(winner.confidence)
             /\ winner.source = "corpus" =>
                    d.explanation.template = "Corpus match selected with %s% similarity"
             /\ winner.source = "dictionary" =>
                    d.explanation.template =
                        "Dictionary composition with %s% average word confidence"
             /\ winner.source \in {"corpus", "dictionary"}

\* C19 as stated: the explanation of every Decision follows from the origin
\* of the winner, no Decision has the fallback explanation, and a call of
\* generateExplanation that reaches the fallback branch fails instead of
\* returning.
C19_FallbackIsHardFailure ==
    /\ Decided =>
           /\ ExplainedByOrigin(returned.value)
           /\ returned.value.explanation.template # "Fallback translation used"
    /\ (/\ returned.op = "generateExplanation"
        /\ Len(args.candidates) > 0
        /\ args.bestCandidate.source \notin {"corpus", "dictionary"}) =>
           returned.thrown

\* what does hold: the part on the Decisions of makeDecision, and that the
\* fallback branch returns its text as a normal result
C19_FallbackIsReturned ==
    /\ Decided =>
           /\ ExplainedByOrigin(returned.value)
           /\ returned.value.explanation.template # "Fallback translation used"
    /\ (/\ returned.op = "generateExplanation"
        /\ Len(args.candidates) > 0
        /\ args.bestCandidate.source \notin {"corpus", "dictionary"}) =>
           /\ ~returned.thrown
           /\ returned.value = [template |-> "Fallback translation used",
                                value |-> <<>>]

\* ------------------------------------------------------------------------
\* Concurrent and sequential use of one pipeline (Spec)
\* ------------------------------------------------------------------------
\* the scored results of a sentence when the calls run one after the other:
\* each table holds what one load of its file gives
SequentialResults(sentence) ==
    LET segments == SplitterProcess(sentence)
    IN  ScorerProcess(
            RefereeProcess(segments,
                           DictionaryProcess(DictionaryLoadedOnce, segments),
                           CorpusProcess(CorpusLoadedOnce, segments)))

\* C20 as stated: whatever the interleaving of two calls on a fresh
\* pipeline, each sentence gets the candidates list, the candidate count,
\* the chosen target and the composite confidence it gets when the calls
\* run one after the other.
C20_ConcurrentAsSequential ==
    \A p \in ScoredCalls :
        LET expected == SequentialResults(calls[p].src)
        IN  /\ Len(calls[p].scored_results) = Len(expected)
            /\ \A i \in 1..Len(expected) :
                   LET r == calls[p].scored_results[i]
                   IN  /\ r.candidates = expected[i].candidates
                       /\ r.quality_features.candidate_count =
                              expected[i].quality_features.candidate_count
                       /\ r.final = expected[i].final
                       /\ r.composite_confidence = expected[i].composite_confidence

\* what does hold: the chosen target, the winning confidence and the
\* composite confidence of a segment with tokens are those of the sequential
\* run; the candidates list may hold its corpus candidates twice
C20_SameWinner ==
    \A p \in ScoredCalls :
        LET expected == SequentialResults(calls[p].src)
        IN  /\ Len(calls[p].scored_results) = Len(expected)
            /\ \A i \in 1..Len(expected) :
                   LET r == calls[p].scored_results[i]
                   IN  /\ r.final = expected[i].final
                       /\ r.explanation = expected[i].explanation
                       /\ Range(r.candidates) = Range(expected[i].candidates)
                       /\ Len(calls[p].segments[i].tokens) > 0 =>
                              r.composite_confidence = expected[i].composite_confidence

\* ------------------------------------------------------------------------
\* C21: the order of the stages, a throwing stage, and batchTranslate
\* ------------------------------------------------------------------------
\* the stage a translateSentence call is in: 0 before it starts, 1 splitter,
\* 2 dictionary lookup, 3 corpus retriever, 4 referee, 5 scorer, 6 logger,
\* 7 once it has returned
StageOf(pc) ==
    CASE pc = "idle" -> 0
      [] pc = "splitter" -> 1
      [] pc \in {"dict_load", "dict_read", "dict_lookup"} -> 2
      [] pc \in {"corpus_load", "corpus_read", "corpus_search"} -> 3
      [] pc = "referee" -> 4
      [] pc = "scorer" -> 5
      [] pc = "logger" -> 6
      [] pc = "done" -> 7

\* the context fields the stages 1..5 return, in the order of the stages
StageOutputs ==
    <<"segments", "dictionary_results", "corpus_results", "final_results",
      "scored_results">>

\* one step of the call p: a stage gives way to the next stage only, and the
\* output of a stage is written by the step that ends that stage and by no
\* other; a call ends from the logger with success: true and its records
\* appended, or from a throwing stage with success: false, nothing appended
\* and no output of that stage or of a later one in the context
StagesInOrderStep(p) ==
    LET before == calls[p]
        after == calls'[p]
        from == StageOf(before.pc)
        to == StageOf(after.pc)
    IN  /\ to \in {from, from + 1, 0, 7}
        /\ to = 0 => from \in {0, 7}
        /\ (to = 7 /\ from # 7) =>
               \/ /\ from = 6
                  /\ after.result.status = "success"
                  /\ output' = output \o after.result.records
                  /\ Len(after.result.records) = Len(before.scored_results)
               \/ /\ from \in 1..6
                  /\ after.result.status = "error"
                  /\ after.result.records = <<>>
                  /\ output' = output
                  /\ \A k \in 1..5 : k >= from => after[StageOutputs[k]] = <<>>
        /\ \A k \in 1..5 :
               after[StageOutputs[k]] # before[StageOutputs[k]] =>
                   \/ from = k /\ to = k + 1
                   \/ from = 7 /\ to = 0

\* the output file is appended to by a call that leaves the logger, only
OnlyLoggerAppends ==
    output' # output =>
        \E p \in Calls : StageOf(calls[p].pc) = 6 /\ StageOf(calls'[p].pc) = 7

\* the texts of the segments of a sentence, which tell the results of
\* different sentences apart
SegmentTexts(sentence) ==
    LET segments == SplitterProcess(sentence)
    IN  [j \in 1..Len(segments) |-> segments[j].text]

\* result is a result of translateSentence(sentence): a failure, or a
\* success with one record per segment of that sentence, in order
ResultOf(result, sentence) ==
    \/ result.status = "error" /\ result.records = <<>>
    \/ /\ result.status = "success"
       /\ IsString(sentence)
       /\ [j \in 1..Len(result.records) |-> result.records[j].src] =
              SegmentTexts(sentence)

Successes(results) ==
    Cardinality({k \in 1..Len(results) : results[k].status = "success"})

\* the batch while it runs: the results so far are those of the sentences
\* before the current one, in input order, a sentence that is no string has
\* failed without stopping the loop, and successCount counts the successes
BatchInOrder ==
    Batching =>
        /\ Len(args.results) = args.i - 1
        /\ args.i <= Len(args.frenchSentences) + 1
        /\ \A k \in 1..Len(args.results) :
               /\ ResultOf(args.results[k], args.frenchSentences[k])
               /\ ~IsString(args.frenchSentences[k]) =>
                      args.results[k].status = "error"
        /\ args.successCount = Successes(args.results)
        /\ calls["t1"].pc # "idle" =>
               /\ args.i <= Len(args.frenchSentences)
               /\ calls["t1"].src = args.frenchSentences[args.i]

\* what batchTranslate returns: one result per input sentence, in input
\* order, total the number of sentences, successful the number of successes
BatchReturned ==
    (returned # NoCall /\ returned.op = "batchTranslate") =>
        /\ returned.total = Len(args.frenchSentences)
        /\ Len(returned.results) = Len(args.frenchSentences)
        /\ \A k \in 1..Len(returned.results) :
               ResultOf(returned.results[k], args.frenchSentences[k])
        /\ returned.successful = Successes(returned.results)
        /\ Len(output) =
               LET RECURSIVE Records(_)
                   Records(k) == IF k = 0 THEN 0
                                 ELSE Len(returned.results[k].records) + Records(k - 1)
               IN  Records(Len(returned.results))

\* C21: within one translateSentence call the stages run in the order
\* splitter, dictionary lookup, corpus retriever, referee, scorer, logger,
\* each after the previous one has returned; when a stage throws no later
\* stage runs, the logger appends no record and the call returns
\* success: false; batchTranslate goes on with the next sentence and returns
\* one result per input sentence, in input order, with successful the number
\* of results that have success: true.
C21_StagesInOrderAndBatchComplete ==
    /\ [](BatchInOrder /\ BatchReturned)
    /\ [][OnlyLoggerAppends /\ \A p \in Calls : StagesInOrderStep(p)]_vars

\* a batch has returned two results: the first a failure, the second a
\* success whose records are in the output file
C21_Witness ==
    /\ returned # NoCall
    /\ returned.op = "batchTranslate"
    /\ Len(returned.results) = 2
    /\ returned.results[1].status = "error"
    /\ returned.results[2].status = "success"
    /\ returned.successful = 1
    /\ Len(returned.results[2].records) = 2
    /\ output = returned.results[2].records

====
